---- MODULE Spec2Model ----
(***************************************************************************)
(* A model of src/src/html-to-images.js: the image stage of the            *)
(* HTML -> images -> deck pipeline.  One run of the script is modelled:    *)
(* loading the module (loadConfig), main, ensureOutputDir, scanHtmlFiles,  *)
(* and, for every discovered file, convertHtmlToImages with each of its    *)
(* awaits as one step that either completes or throws.                     *)
(*                                                                         *)
(* Strings are sequences of one-character strings, so that basename,       *)
(* padStart, path.join, glob matching and Array.prototype.sort are         *)
(* computed character by character as the code computes them.              *)
(***************************************************************************)
EXTENDS Integers, Sequences, FiniteSets, TLC

\* ------------------------------------------------------------------ bounds

\* The largest number of '.page' elements a small document holds.
MaxPages == 2

\* The number of '.page' elements of the one large document shape: large
\* enough for a page index of two digits.
ManyPages == 10

\* ------------------------------------------------------------------ strings

\* UTF-16 code units of the characters the model's strings use
\* (Array.prototype.sort without a comparator orders strings by code unit).
CodeUnit(c) ==
  CASE c = "*" -> 42
    [] c = "." -> 46
    [] c = "/" -> 47
    [] c = "0" -> 48
    [] c = "1" -> 49
    [] c = "2" -> 50
    [] c = "3" -> 51
    [] c = "4" -> 52
    [] c = "5" -> 53
    [] c = "6" -> 54
    [] c = "7" -> 55
    [] c = "8" -> 56
    [] c = "9" -> 57
    [] c = "_" -> 95
    [] c = "a" -> 97
    [] c = "b" -> 98
    [] c = "d" -> 100
    [] c = "e" -> 101
    [] c = "f" -> 102
    [] c = "g" -> 103
    [] c = "h" -> 104
    [] c = "i" -> 105
    [] c = "j" -> 106
    [] c = "l" -> 108
    [] c = "m" -> 109
    [] c = "n" -> 110
    [] c = "o" -> 111
    [] c = "p" -> 112
    [] c = "r" -> 114
    [] c = "s" -> 115
    [] c = "t" -> 116
    [] c = "u" -> 117
    [] c = "w" -> 119
    [] c = "x" -> 120
    [] OTHER -> 0

RECURSIVE StrLess(_, _)
\* s < t as JavaScript compares strings: code unit by code unit, a proper
\* prefix first.
StrLess(s, t) ==
  IF t = <<>> THEN FALSE
  ELSE IF s = <<>> THEN TRUE
  ELSE IF CodeUnit(Head(s)) # CodeUnit(Head(t))
       THEN CodeUnit(Head(s)) < CodeUnit(Head(t))
       ELSE StrLess(Tail(s), Tail(t))

\* s.endsWith(suffix)
EndsWith(s, suffix) ==
  /\ Len(suffix) <= Len(s)
  /\ SubSeq(s, Len(s) - Len(suffix) + 1, Len(s)) = suffix

RECURSIVE Split(_)
\* The segments of a path between its "/" separators, empty segments dropped.
Split(s) ==
  IF s = <<>> THEN <<>>
  ELSE IF Head(s) = "/" THEN Split(Tail(s))
  ELSE LET n == IF \E k \in 1..Len(s) : s[k] = "/"
                THEN (CHOOSE k \in 1..Len(s) :
                        s[k] = "/" /\ \A j \in 1..(k - 1) : s[j] # "/") - 1
                ELSE Len(s)
       IN  <<SubSeq(s, 1, n)>> \o Split(SubSeq(s, n + 1, Len(s)))

\* path.basename(p, ext): the last segment of p, without the suffix ext
\* unless the segment is ext itself.
Basename(p, ext) ==
  LET segs == Split(p)
      base == IF segs = <<>> THEN <<>> ELSE segs[Len(segs)]
  IN  IF EndsWith(base, ext) /\ base # ext
      THEN SubSeq(base, 1, Len(base) - Len(ext))
      ELSE base

\* path.join(dir, name) for a normalised dir and a plain file name.
PathJoin(dir, name) == dir \o <<"/">> \o name

Digit(d) == <<"0", "1", "2", "3", "4", "5", "6", "7", "8", "9">>[d + 1]

RECURSIVE NumToString(_)
\* String(n) for a natural number n.
NumToString(n) ==
  IF n < 10 THEN <<Digit(n)>>
  ELSE NumToString(n \div 10) \o <<Digit(n % 10)>>

RECURSIVE PadStart(_, _, _)
\* s.padStart(width, fill) for a one-character fill.
PadStart(s, width, fill) ==
  IF Len(s) >= width THEN s ELSE PadStart(<<fill>> \o s, width, fill)

Html == <<".", "h", "t", "m", "l">>
Png == <<".", "p", "n", "g">>
PageInfix == <<"_", "p", "a", "g", "e", "_">>

\* ------------------------------------------------------------------ layout

\* path.join(__dirname, '..'): the project directory, which convert.sh also
\* makes the working directory.
ProjectRoot == <<"/", "w">>

DefaultOutputDir ==
  ProjectRoot \o <<"/", "o", "u", "t", "p", "u", "t", "/", "i", "m", "a", "g", "e", "s">>

DefaultScanPatterns ==
  << ProjectRoot \o <<"/", "*">> \o Html,
     ProjectRoot \o <<"/", "*", "*", "/", "*">> \o Html >>

DefaultExcludePatterns ==
  << <<"*", "*", "/", "n", "o", "d", "e", "_", "m", "o", "d", "u", "l", "e", "s", "/", "*", "*">>,
     <<"*", "*", "/", "o", "u", "t", "p", "u", "t", "/", "*", "*">>,
     <<"*", "*", "/", ".", "g", "i", "t", "/", "*", "*">>,
     <<"*", "*", "/", "d", "i", "s", "t", "/", "*", "*">>,
     <<"*", "*", "/", "b", "u", "i", "l", "d", "/", "*", "*">>,
     <<"*", "*", "/", "f", "r", "o", "n", "t", "e", "n", "d", "/", "*", "*">> >>

\* The files a project directory may hold: two reports of the same base name
\* in different directories, one report at the top, one HTML file under the
\* excluded output directory, and one file that is no HTML file.
FileTop == ProjectRoot \o <<"/", "s">> \o Html
FileA == ProjectRoot \o <<"/", "a", "/", "r">> \o Html
FileB == ProjectRoot \o <<"/", "b", "/", "r">> \o Html
FileOut == ProjectRoot \o <<"/", "o", "u", "t", "p", "u", "t", "/", "x">> \o Html
FileTxt == ProjectRoot \o <<"/", "a", "/", "n", ".", "t", "x", "t">>

AllFiles == {FileTop, FileA, FileB, FileOut, FileTxt}

\* The directory trees a scan is tried on.
Trees == SUBSET AllFiles

\* The directory trees the modelled runs start from: those with at most two
\* reports to convert.
RunTrees == {t \in Trees : Cardinality(t \cap {FileTop, FileA, FileB}) <= 2}

\* ------------------------------------------------------------------ glob

RECURSIVE WildMatch(_, _)
\* One path segment against one pattern segment, "*" standing for any run
\* of characters.
WildMatch(pat, seg) ==
  IF pat = <<>> THEN seg = <<>>
  ELSE IF Head(pat) = "*"
       THEN \/ WildMatch(Tail(pat), seg)
            \/ seg # <<>> /\ WildMatch(pat, Tail(seg))
       ELSE /\ seg # <<>>
            /\ Head(seg) = Head(pat)
            /\ WildMatch(Tail(pat), Tail(seg))

\* A wildcard does not match a leading dot unless dot files are asked for.
DotOk(pat, seg, dot) ==
  dot \/ seg = <<>> \/ Head(seg) # "." \/ (pat # <<>> /\ Head(pat) = ".")

RECURSIVE SegsMatch(_, _, _)
\* A path's segments against a pattern's segments, "**" standing for any
\* number of directories.
SegsMatch(pats, segs, dot) ==
  IF pats = <<>> THEN segs = <<>>
  ELSE IF Head(pats) = <<"*", "*">>
       THEN \/ SegsMatch(Tail(pats), segs, dot)
            \/ /\ segs # <<>>
               /\ DotOk(<<"*">>, Head(segs), dot)
               /\ SegsMatch(pats, Tail(segs), dot)
       ELSE /\ segs # <<>>
            /\ DotOk(Head(pats), Head(segs), dot)
            /\ WildMatch(Head(pats), Head(segs))
            /\ SegsMatch(Tail(pats), Tail(segs), dot)

\* A path relative to the working directory (the project directory).
Relative(p) ==
  IF Len(p) > Len(ProjectRoot) /\ SubSeq(p, 1, Len(ProjectRoot)) = ProjectRoot
  THEN SubSeq(p, Len(ProjectRoot) + 2, Len(p))
  ELSE p

\* A scan pattern is absolute and is matched against the absolute path.
MatchesScan(pattern, file) == SegsMatch(Split(pattern), Split(file), FALSE)

\* An ignore pattern is relative, matched in dot mode against the path
\* relative to the working directory.
MatchesIgnore(pattern, file) == SegsMatch(Split(pattern), Split(Relative(file)), TRUE)

Range(s) == {s[k] : k \in DOMAIN s}

\* A pattern the glob library rejects: it stands for one longer than the
\* library accepts.
RejectedPattern == <<"*", "*", "*", "*", "*", "*", "*", "*", "*", "*", "*", "*">>

GlobThrows(pattern) == pattern = RejectedPattern

\* glob(pattern, {ignore, absolute: true, nodir: true}): the files of the
\* tree that match the pattern and no ignore pattern.
Glob(pattern, ignore, files) ==
  {f \in files : /\ MatchesScan(pattern, f)
                 /\ \A k \in DOMAIN ignore : ~MatchesIgnore(ignore[k], f)}

\* The orders in which a set may be listed.
Orders(S) ==
  {o \in [1..Cardinality(S) -> S] : \A i, j \in 1..Cardinality(S) : o[i] = o[j] => i = j}

\* ------------------------------------------------------------------ scanHtmlFiles

RECURSIVE Dedupe(_)
\* [...new Set(list)]: the first occurrence of every element, in order.
Dedupe(list) ==
  IF list = <<>> THEN <<>>
  ELSE LET IsOther(x) == x # Head(list)
       IN  <<Head(list)>> \o Dedupe(SelectSeq(Tail(list), IsOther))

RECURSIVE Insert(_, _)
Insert(sorted, x) ==
  IF sorted = <<>> THEN <<x>>
  ELSE IF StrLess(x, Head(sorted)) THEN <<x>> \o sorted
  ELSE <<Head(sorted)>> \o Insert(Tail(sorted), x)

RECURSIVE SortStrings(_)
\* list.sort() without a comparator: ascending by code units.
SortStrings(list) ==
  IF list = <<>> THEN <<>>
  ELSE Insert(SortStrings(Tail(list)), Head(list))

RECURSIVE CollectFiles(_, _, _)
\* The loop of scanHtmlFiles: the contents allFiles may have after it, one
\* for every order in which glob lists its matches.  A pattern whose glob
\* throws is logged and adds nothing.
CollectFiles(patterns, ignore, files) ==
  IF patterns = <<>> THEN {<<>>}
  ELSE LET found == IF GlobThrows(Head(patterns)) THEN {<<>>}
                    ELSE Orders(Glob(Head(patterns), ignore, files))
       IN  {a \o b : a \in found, b \in CollectFiles(Tail(patterns), ignore, files)}

\* Mutant of UniqueFiles: the list sorted without removing duplicates.
UniqueFilesKeepDuplicates(allFiles) == SortStrings(allFiles)

UniqueFiles(allFiles) == SortStrings(Dedupe(allFiles))

\* The lists scanHtmlFiles may return.
scanHtmlFiles(config, files) ==
  {UniqueFiles(all) : all \in CollectFiles(config.scanPatterns, config.excludePatterns, files)}

\* ------------------------------------------------------------------ loadConfig

\* JSON values, tagged by type.  An object is a function from its keys.
Undefined == [t |-> "undefined"]
Null == [t |-> "null"]
Num(n) == [t |-> "number", n |-> n]
Str(s) == [t |-> "string", s |-> s]
Bool(b) == [t |-> "boolean", b |-> b]
Obj(f) == [t |-> "object", f |-> f]
EmptyObject == Obj(<<>>)

\* value[key] for a value that is neither null nor undefined.
GetProp(value, key) ==
  IF value.t = "object" /\ key \in DOMAIN value.f THEN value.f[key] ELSE Undefined

\* The own enumerable properties {...value} copies: those of an object, the
\* characters of a string by index, none of any other value.
IndexKey(i) == <<"0", "1", "2", "3", "4", "5", "6", "7", "8", "9">>[i + 1]

SpreadProps(value) ==
  IF value.t = "object" THEN value.f
  ELSE IF value.t = "string"
       THEN [k \in {IndexKey(i - 1) : i \in 1..Len(value.s)} |->
               Str(<<value.s[CHOOSE i \in 1..Len(value.s) : IndexKey(i - 1) = k]>>)]
       ELSE <<>>

\* {...a, ...b} on property maps: b's value where both have the key.
Merge(a, b) ==
  [k \in DOMAIN a \cup DOMAIN b |-> IF k \in DOMAIN b THEN b[k] ELSE a[k]]

\* ToBoolean(value)
Truthy(value) ==
  CASE value.t = "undefined" -> FALSE
    [] value.t = "null" -> FALSE
    [] value.t = "boolean" -> value.b
    [] value.t = "number" -> value.n # 0
    [] value.t = "string" -> value.s # <<>>
    [] OTHER -> TRUE

\* a || b
OrElse(a, b) == IF Truthy(a) THEN a ELSE b

DefaultWidth == 1122
DefaultHeight == 794
DefaultScale == 3
DefaultQuality == 100

DefaultViewport ==
  [k \in {"width", "height", "deviceScaleFactor"} |->
     CASE k = "width" -> Num(DefaultWidth)
       [] k = "height" -> Num(DefaultHeight)
       [] OTHER -> Num(DefaultScale)]

PngFormat == <<"p", "n", "g">>
JpegFormat == <<"j", "p", "e", "g">>

defaultConfig ==
  [outputDir |-> DefaultOutputDir,
   scanPatterns |-> DefaultScanPatterns,
   excludePatterns |-> DefaultExcludePatterns,
   viewport |-> DefaultViewport,
   imageFormat |-> Str(PngFormat),
   imageQuality |-> Num(DefaultQuality)]

\* The configuration file: absent, present but unreadable, present with text
\* that is no JSON, or present with the JSON value its text denotes.
NoConfigFile == [kind |-> "absent"]
UnreadableConfigFile == [kind |-> "unreadable"]
MalformedConfigFile == [kind |-> "malformed"]
JsonConfigFile(value) == [kind |-> "json", value |-> value]

\* customConfig after the try block: the parsed value when the file exists,
\* is read and parses; the initial {} otherwise.
CustomConfig(file) ==
  IF file.kind = "json" THEN file.value ELSE EmptyObject

\* The property reads of the merge throw a TypeError on null.
MergeThrows(customConfig) == customConfig.t = "null"

MergedConfig(customConfig) ==
  [defaultConfig EXCEPT
     !.viewport = Merge(defaultConfig.viewport,
                        SpreadProps(GetProp(customConfig, "viewport"))),
     !.imageFormat = OrElse(GetProp(customConfig, "imageFormat"), defaultConfig.imageFormat),
     !.imageQuality = OrElse(GetProp(customConfig, "imageQuality"), defaultConfig.imageQuality)]

\* loadConfig(): what it returns, or that it throws.
loadConfig(file) ==
  IF MergeThrows(CustomConfig(file))
  THEN [threw |-> TRUE]
  ELSE [threw |-> FALSE, config |-> MergedConfig(CustomConfig(file))]

\* The configuration files a run may find.
ConfigFiles ==
  { NoConfigFile,
    UnreadableConfigFile,
    MalformedConfigFile,
    JsonConfigFile(Null),
    JsonConfigFile(Num(5)),
    JsonConfigFile(Str(JpegFormat)),
    JsonConfigFile(EmptyObject),
    JsonConfigFile(Obj([k \in {"imageFormat"} |-> Str(JpegFormat)])),
    JsonConfigFile(Obj([k \in {"viewport"} |-> Obj([j \in {"width"} |-> Num(0)])])) }

\* The configuration files the modelled runs start with.
RunConfigFiles ==
  { NoConfigFile,
    MalformedConfigFile,
    JsonConfigFile(Null),
    JsonConfigFile(Obj([k \in {"imageFormat"} |-> Str(JpegFormat)])) }

\* ------------------------------------------------------------------ state

VARIABLES
  configFile,    \* html-to-images-config.json as the run finds it
  tree,          \* the files under the project directory
  CONFIG,        \* the module constant CONFIG, once loaded
  pc,            \* the statement the script is at
  htmlFiles,     \* main: the discovered files
  idx,           \* main: position of the for-of loop in htmlFiles (1-based)
  session,       \* convertHtmlToImages: fileName, pageElements.length, i
  open,          \* the browsers, contexts and pages that are open
  captures,      \* every screenshot written so far
  calls,         \* the arguments of the calls of convertHtmlToImages so far
  results,       \* how each finished call ended
  totalPages,
  successCount,
  failCount,
  log,           \* the console lines that matter, as a set
  exitCode,      \* the process's exit status, NoExit while it runs
  rescan,        \* the list a second call of scanHtmlFiles returned
  shell          \* convert.sh: its arguments, flags, position and stages

vars ==
  <<configFile, tree, CONFIG, pc, htmlFiles, idx, session, open, captures, calls,
    results, totalPages, successCount, failCount, log, exitCode, rescan, shell>>

NoExit == -1

\* convert.sh is not running.
NoShell ==
  [argv |-> <<>>, rest |-> <<>>, IMAGES_ONLY |-> FALSE, PPT_ONLY |-> FALSE,
   pc |-> "none", started |-> <<>>, imageStatus |-> NoExit, banner |-> FALSE,
   status |-> NoExit]
NotLoaded == [threw |-> FALSE, config |-> <<>>]
NoSession == [fileName |-> <<>>, found |-> -1, i |-> 0]

LogLine(kind, file, ok, failed, pages) ==
  [kind |-> kind, file |-> file, ok |-> ok, failed |-> failed, pages |-> pages]

ErrorLine(file) == LogLine("error", file, 0, 0, 0)
SummaryLine(ok, failed, pages) == LogLine("summary", <<>>, ok, failed, pages)
NoFilesLine == LogLine("nofiles", <<>>, 0, 0, 0)
FatalLine == LogLine("fatal", <<>>, 0, 0, 0)
MkdirErrorLine == LogLine("mkdir", <<>>, 0, 0, 0)

\* The numbers of '.page' elements a document may hold.
PageCounts == 0..MaxPages \cup {ManyPages}

\* The resources of the session of the k-th file.
Browser(k) == <<k, "browser">>
Context(k) == <<k, "context">>
Page(k) == <<k, "page">>
SessionOf(k) == {Browser(k), Context(k), Page(k)}

\* Mutant of OutputName: the loop variable itself as the page index.
OutputNameZeroBased(fileName, i) ==
  fileName \o PageInfix \o PadStart(NumToString(i), 2, "0") \o Png

\* `${fileName}_page_${String(i + 1).padStart(2, '0')}.png` under outputDir,
\* i being the loop variable (0-based).
OutputName(fileName, i) ==
  fileName \o PageInfix \o PadStart(NumToString(i + 1), 2, "0") \o Png

OutputPath(config, fileName, i) == PathJoin(config.outputDir, OutputName(fileName, i))

Init ==
  /\ configFile \in RunConfigFiles
  /\ tree \in RunTrees
  /\ CONFIG = NotLoaded
  /\ pc = "load"
  /\ htmlFiles = <<>>
  /\ idx = 0
  /\ session = NoSession
  /\ open = {}
  /\ captures = {}
  /\ calls = <<>>
  /\ results = <<>>
  /\ totalPages = 0
  /\ successCount = 0
  /\ failCount = 0
  /\ log = {}
  /\ exitCode = NoExit
  /\ rescan = <<>>
  /\ shell = NoShell

\* ------------------------------------------------------------------ module load and main

\* const CONFIG = loadConfig(), then main() when run as a script.  An
\* exception while the module loads is uncaught: the process ends with
\* status 1 before main is called.
LoadModule ==
  /\ pc = "load"
  /\ CONFIG' = loadConfig(configFile)
  /\ IF loadConfig(configFile).threw
     THEN pc' = "exited" /\ exitCode' = 1
     ELSE pc' = "ensureOutputDir" /\ UNCHANGED exitCode
  /\ UNCHANGED <<shell, configFile, tree, htmlFiles, idx, session, open, captures, calls,
                 results, totalPages, successCount, failCount, log, rescan>>

\* Mutant of EnsureOutputDir: the error of mkdir logged and not rethrown.
EnsureOutputDirSwallowed ==
  /\ pc = "ensureOutputDir"
  /\ \E ok \in BOOLEAN :
       IF ok
       THEN pc' = "scan" /\ UNCHANGED log
       ELSE pc' = "scan" /\ log' = log \cup {MkdirErrorLine}
  /\ UNCHANGED <<shell, configFile, tree, CONFIG, htmlFiles, idx, session, open, captures,
                 calls, results, totalPages, successCount, failCount, exitCode, rescan>>

\* ensureOutputDir(): mkdir succeeds, or throws and the error is logged and
\* rethrown, which rejects main.
EnsureOutputDir ==
  /\ pc = "ensureOutputDir"
  /\ \E ok \in BOOLEAN :
       IF ok
       THEN pc' = "scan" /\ UNCHANGED log
       ELSE pc' = "rejected" /\ log' = log \cup {MkdirErrorLine}
  /\ UNCHANGED <<shell, configFile, tree, CONFIG, htmlFiles, idx, session, open, captures,
                 calls, results, totalPages, successCount, failCount, exitCode, rescan>>

\* const htmlFiles = await scanHtmlFiles(), and the early return of main on
\* an empty list.
ScanFiles ==
  /\ pc = "scan"
  /\ htmlFiles' \in scanHtmlFiles(CONFIG.config, tree)
  /\ IF Len(htmlFiles') = 0
     THEN pc' = "resolved" /\ log' = log \cup {NoFilesLine} /\ UNCHANGED idx
     ELSE pc' = "loop" /\ idx' = 1 /\ UNCHANGED log
  /\ UNCHANGED <<shell, configFile, tree, CONFIG, session, open, captures, calls, results,
                 totalPages, successCount, failCount, exitCode, rescan>>

\* The head of the for-of loop: the call for the next file, or past the last
\* file the summary and the end of main.
LoopStep ==
  /\ pc = "loop"
  /\ IF idx <= Len(htmlFiles)
     THEN /\ calls' = Append(calls, htmlFiles[idx])
          /\ session' = [fileName |-> Basename(htmlFiles[idx], Html), found |-> -1, i |-> 0]
          /\ pc' = "launch"
          /\ UNCHANGED log
     ELSE /\ log' = log \cup {SummaryLine(successCount, failCount, totalPages)}
          /\ pc' = "resolved"
          /\ UNCHANGED <<calls, session>>
  /\ UNCHANGED <<shell, configFile, tree, CONFIG, htmlFiles, idx, open, captures, results,
                 totalPages, successCount, failCount, exitCode, rescan>>

\* main's promise resolved: nothing calls process.exit and the status is 0.
ExitAfterMain ==
  /\ pc = "resolved"
  /\ pc' = "exited"
  /\ exitCode' = 0
  /\ UNCHANGED <<shell, configFile, tree, CONFIG, htmlFiles, idx, session, open, captures,
                 calls, results, totalPages, successCount, failCount, log, rescan>>

\* main().catch: 'Fatal error:' and process.exit(1).
FatalHandler ==
  /\ pc = "rejected"
  /\ log' = log \cup {FatalLine}
  /\ pc' = "exited"
  /\ exitCode' = 1
  /\ UNCHANGED <<shell, configFile, tree, CONFIG, htmlFiles, idx, session, open, captures,
                 calls, results, totalPages, successCount, failCount, rescan>>

\* ------------------------------------------------------------------ convertHtmlToImages

\* What no step of convertHtmlToImages changes.
callerVars ==
  <<shell, configFile, tree, CONFIG, htmlFiles, calls, log, exitCode, rescan>>

counters == <<totalPages, successCount, failCount>>

\* One await of the call completing: the step at `at' done, `next' to come.
Step(at, next) ==
  /\ pc = at
  /\ pc' = next
  /\ UNCHANGED callerVars
  /\ UNCHANGED <<idx, results, counters>>

\* const browser = await chromium.launch(...)
Launch ==
  /\ Step("launch", "newContext")
  /\ open' = open \cup {Browser(idx)}
  /\ UNCHANGED <<session, captures>>

\* const context = await browser.newContext(...)
NewContext ==
  /\ Step("newContext", "newPage")
  /\ open' = open \cup {Context(idx)}
  /\ UNCHANGED <<session, captures>>

\* const page = await context.newPage()
NewPage ==
  /\ Step("newPage", "goto")
  /\ open' = open \cup {Page(idx)}
  /\ UNCHANGED <<session, captures>>

\* await page.goto(fileUrl, {waitUntil: 'networkidle', timeout: 60000})
Goto ==
  /\ Step("goto", "settle")
  /\ UNCHANGED <<session, open, captures>>

\* await page.waitForTimeout(3000)
Settle ==
  /\ Step("settle", "query")
  /\ UNCHANGED <<session, open, captures>>

\* Where the for loop over pageElements goes from its test i < length.
LoopTarget(i, length) == IF i < length THEN "scroll" ELSE "closePage"

\* const pageElements = await page.locator('.page').all(): the document
\* holds some number of '.page' elements.
Query ==
  /\ \E n \in PageCounts :
       /\ Step("query", LoopTarget(0, n))
       /\ session' = [session EXCEPT !.found = n, !.i = 0]
  /\ UNCHANGED <<open, captures>>

\* await element.scrollIntoViewIfNeeded()
Scroll ==
  /\ Step("scroll", "wait")
  /\ UNCHANGED <<session, open, captures>>

\* await page.waitForTimeout(500)
Wait ==
  /\ Step("wait", "screenshot")
  /\ UNCHANGED <<session, open, captures>>

\* The screenshot of pageElements[i] as it is written.
Capture(k, config, sess, ord) ==
  [file |-> k,
   index |-> sess.i + 1,
   ord |-> ord,
   path |-> OutputPath(config, sess.fileName, sess.i),
   type |-> config.imageFormat]

\* await element.screenshot({path: outputPath, type: CONFIG.imageFormat, ...})
\* and i++.
Screenshot ==
  /\ Step("screenshot", LoopTarget(session.i + 1, session.found))
  /\ captures' = captures \cup
       {Capture(idx, CONFIG.config, session,
                Cardinality({c \in captures : c.file = idx}) + 1)}
  /\ session' = [session EXCEPT !.i = session.i + 1]
  /\ UNCHANGED open

\* await page.close()
ClosePage ==
  /\ Step("closePage", "closeContext")
  /\ open' = open \ {Page(idx)}
  /\ UNCHANGED <<session, captures>>

\* await context.close(): the context and the pages in it.
CloseContext ==
  /\ Step("closeContext", "closeBrowser")
  /\ open' = open \ {Context(idx), Page(idx)}
  /\ UNCHANGED <<session, captures>>

\* await browser.close(): the browser and everything in it.
CloseBrowser ==
  /\ Step("closeBrowser", "return")
  /\ open' = open \ SessionOf(idx)
  /\ UNCHANGED <<session, captures>>

\* How a call ended: returned or threw, whether the browser had been
\* launched, the number of elements the query found (-1 before the query),
\* and the value returned.
Result(file, outcome, launched, found, count) ==
  [file |-> file, outcome |-> outcome, launched |-> launched, found |-> found,
   count |-> count]

\* Mutant of ReturnToMain: a returned count of zero counted as a failure.
ReturnToMainZeroFails ==
  /\ pc = "return"
  /\ results' = Append(results,
                  Result(htmlFiles[idx], "returned", TRUE, session.found, session.found))
  /\ totalPages' = totalPages + session.found
  /\ IF session.found = 0
     THEN failCount' = failCount + 1 /\ UNCHANGED successCount
     ELSE successCount' = successCount + 1 /\ UNCHANGED failCount
  /\ idx' = idx + 1
  /\ pc' = "loop"
  /\ session' = NoSession
  /\ UNCHANGED callerVars
  /\ UNCHANGED <<open, captures>>

\* return pageElements.length, and in main: totalPages += pageCount;
\* successCount++; then the next file.
ReturnToMain ==
  /\ pc = "return"
  /\ results' = Append(results,
                  Result(htmlFiles[idx], "returned", TRUE, session.found, session.found))
  /\ totalPages' = totalPages + session.found
  /\ successCount' = successCount + 1
  /\ idx' = idx + 1
  /\ pc' = "loop"
  /\ session' = NoSession
  /\ UNCHANGED callerVars
  /\ UNCHANGED <<open, captures, failCount>>

\* The awaits of convertHtmlToImages: each may throw.
AwaitPoints ==
  {"launch", "newContext", "newPage", "goto", "settle", "query", "scroll", "wait",
   "screenshot", "closePage", "closeContext", "closeBrowser"}

\* Mutant of CatchFileError: the error of one file ends the loop.
CatchFileErrorEndsLoop ==
  /\ pc \in AwaitPoints
  /\ \E crashed \in BOOLEAN :
       open' = IF crashed THEN open \ SessionOf(idx) ELSE open
  /\ log' = log \cup {ErrorLine(htmlFiles[idx])}
  /\ failCount' = failCount + 1
  /\ results' = Append(results, Result(htmlFiles[idx], "threw", pc # "launch", session.found, 0))
  /\ idx' = Len(htmlFiles) + 1
  /\ pc' = "loop"
  /\ session' = NoSession
  /\ UNCHANGED <<shell, configFile, tree, CONFIG, htmlFiles, calls, exitCode, rescan>>
  /\ UNCHANGED <<captures, totalPages, successCount>>

\* An await of convertHtmlToImages throws (a timeout, a failed launch, a
\* crashed browser).  Nothing in the function catches it: the rest of the
\* function is skipped, the closes included, and the catch block of main logs
\* the file, counts it as failed and goes on to the next file.  When the
\* browser process itself died, its session is gone with it.
CatchFileError ==
  /\ pc \in AwaitPoints
  /\ \E crashed \in BOOLEAN :
       open' = IF crashed THEN open \ SessionOf(idx) ELSE open
  /\ log' = log \cup {ErrorLine(htmlFiles[idx])}
  /\ failCount' = failCount + 1
  /\ results' = Append(results, Result(htmlFiles[idx], "threw", pc # "launch", session.found, 0))
  /\ idx' = idx + 1
  /\ pc' = "loop"
  /\ session' = NoSession
  /\ UNCHANGED <<shell, configFile, tree, CONFIG, htmlFiles, calls, exitCode, rescan>>
  /\ UNCHANGED <<captures, totalPages, successCount>>

\* ------------------------------------------------------------------ the run

Next ==
  \/ LoadModule
  \/ EnsureOutputDir
  \/ ScanFiles
  \/ LoopStep
  \/ Launch
  \/ NewContext
  \/ NewPage
  \/ Goto
  \/ Settle
  \/ Query
  \/ Scroll
  \/ Wait
  \/ Screenshot
  \/ ClosePage
  \/ CloseContext
  \/ CloseBrowser
  \/ ReturnToMain
  \/ CatchFileError
  \/ ExitAfterMain
  \/ FatalHandler

Spec == Init /\ [][Next]_vars

\* ------------------------------------------------------------------ scanHtmlFiles alone

\* Scan and exclude patterns a configuration may carry.
PatternA == ProjectRoot \o <<"/", "a", "/", "*">> \o Html
ScanPatternPool == {DefaultScanPatterns[1], DefaultScanPatterns[2], PatternA, RejectedPattern}

ScanPatternLists ==
  {<<>>} \cup {<<p>> : p \in ScanPatternPool}
         \cup {<<p, q>> : p \in ScanPatternPool, q \in ScanPatternPool}

ExcludePatternLists ==
  { <<>>,
    DefaultExcludePatterns,
    << <<"*", "*", "/", "a", "/", "*", "*">> >>,
    << <<"*", "*", "/", "r">> \o Html, DefaultExcludePatterns[2] >> }

ScanConfigs ==
  {[defaultConfig EXCEPT !.scanPatterns = sp, !.excludePatterns = ep] :
     sp \in ScanPatternLists, ep \in ExcludePatternLists}

InitScan ==
  /\ configFile = NoConfigFile
  /\ tree \in Trees
  /\ CONFIG \in {[threw |-> FALSE, config |-> c] : c \in ScanConfigs}
  /\ pc = "scan"
  /\ htmlFiles = <<>>
  /\ idx = 0
  /\ session = NoSession
  /\ open = {}
  /\ captures = {}
  /\ calls = <<>>
  /\ results = <<>>
  /\ totalPages = 0
  /\ successCount = 0
  /\ failCount = 0
  /\ log = {}
  /\ exitCode = NoExit
  /\ rescan = <<>>
  /\ shell = NoShell

\* A first call of scanHtmlFiles.
ScanOnce ==
  /\ pc = "scan"
  /\ htmlFiles' \in scanHtmlFiles(CONFIG.config, tree)
  /\ pc' = "rescan"
  /\ UNCHANGED <<shell, configFile, tree, CONFIG, idx, session, open, captures, calls, results,
                 totalPages, successCount, failCount, log, exitCode, rescan>>

\* A second call, on the same tree.
ScanAgain ==
  /\ pc = "rescan"
  /\ rescan' \in scanHtmlFiles(CONFIG.config, tree)
  /\ pc' = "scanned"
  /\ UNCHANGED <<shell, configFile, tree, CONFIG, htmlFiles, idx, session, open, captures,
                 calls, results, totalPages, successCount, failCount, log, exitCode>>

NextScan == ScanOnce \/ ScanAgain

SpecScan == InitScan /\ [][NextScan]_vars

\* ------------------------------------------------------------------ properties

Returned(k) == k \in DOMAIN results /\ results[k].outcome = "returned"
Threw(k) == k \in DOMAIN results /\ results[k].outcome = "threw"
CapturesOf(k) == {c \in captures : c.file = k}
SummaryLogged == \E l \in log : l.kind = "summary"

\* main ran its loop to the end: it settled with files discovered.
LoopEnded == pc \in {"resolved", "exited"} /\ htmlFiles # <<>>

\* C1: whenever the call of convertHtmlToImages for a file has returned or
\* thrown, the browser, context and page started for that file are closed.
C1_SessionClosedOnEveryExit ==
  \A k \in DOMAIN results : open \cap SessionOf(k) = {}

\* C2: at most one browser is open at any time, and a browser is launched
\* only when every browser, context and page of the earlier files is closed.
C2_OneSessionAtATime ==
  /\ Cardinality({o \in open : o[2] = "browser"}) <= 1
  /\ pc = "launch" => open = {}

\* C3: main calls convertHtmlToImages once for every discovered file, in
\* discovery order, whatever throws; when the loop has ended every file was
\* called, failCount is the number of calls that threw, successCount the
\* number that returned, and they add up to the number of discovered files.
C3_EveryFileOnceInOrder ==
  /\ Len(calls) <= Len(htmlFiles)
  /\ \A k \in DOMAIN calls : calls[k] = htmlFiles[k]
  /\ \A k \in DOMAIN results : results[k].file = htmlFiles[k]
  /\ LoopEnded =>
       /\ calls = htmlFiles
       /\ Len(results) = Len(htmlFiles)
       /\ failCount = Cardinality({k \in DOMAIN results : Threw(k)})
       /\ successCount = Cardinality({k \in DOMAIN results : Returned(k)})
       /\ successCount + failCount = Len(htmlFiles)

\* C3 witness: the loop ended after a file that threw and a later file that
\* returned.
C3_Witness ==
  /\ LoopEnded
  /\ Len(results) = 2
  /\ Threw(1)
  /\ Returned(2)

\* The name the specification gives the j-th image of a file: the file's
\* stem, "_page_", j in at least two digits, ".png", in the output directory.
TwoDigits(j) == IF j < 10 THEN <<"0", Digit(j)>> ELSE NumToString(j)

Stem(file) ==
  LET segs == Split(file)
      name == segs[Len(segs)]
  IN  SubSeq(name, 1, Len(name) - Len(Html))

ExpectedImagePath(file, j) ==
  DefaultOutputDir \o <<"/">> \o Stem(file) \o PageInfix \o TwoDigits(j) \o Png

\* C4: a call that returned for a document of N '.page' elements wrote
\* exactly N image files, the j-th written being the j-th element's, at
\* {stem}_page_{j in two digits}.png for j = 1..N, and returned N.
C4_NImagesNamedInOrder ==
  \A k \in DOMAIN results :
    Returned(k) =>
      LET n == results[k].found
      IN  /\ results[k].count = n
          /\ Cardinality(CapturesOf(k)) = n
          /\ Cardinality({c.path : c \in CapturesOf(k)}) = n
          /\ \A j \in 1..n :
               \E c \in CapturesOf(k) :
                 /\ c.ord = j
                 /\ c.index = j
                 /\ c.path = ExpectedImagePath(results[k].file, j)

\* C4 witness: a call returned for a document with a two-digit number of
\* pages, all of them written.
C4_Witness ==
  \E k \in DOMAIN results :
    /\ Returned(k)
    /\ results[k].found >= 10
    /\ Cardinality(CapturesOf(k)) = results[k].found

\* C5: when chromium.launch throws for every discovered file, the run is
\* aborted: the process exits with a non-zero status and the top-level
\* error is printed.
C5_LaunchFailureAborts ==
  ( /\ pc = "exited"
    /\ htmlFiles # <<>>
    /\ Len(results) = Len(htmlFiles)
    /\ \A k \in DOMAIN results : Threw(k) /\ ~results[k].launched )
  => (exitCode # 0 /\ FatalLine \in log)

\* The files scanHtmlFiles is to return: those of the tree that match a scan
\* pattern glob accepts and no exclude pattern.
Discoverable(config, files) ==
  {f \in files :
     /\ \E k \in DOMAIN config.scanPatterns :
          /\ ~GlobThrows(config.scanPatterns[k])
          /\ MatchesScan(config.scanPatterns[k], f)
     /\ \A k \in DOMAIN config.excludePatterns :
          ~MatchesIgnore(config.excludePatterns[k], f)}

StrictlyAscending(list) ==
  \A i, j \in DOMAIN list : i < j => StrLess(list[i], list[j])

\* C6: scanHtmlFiles returns exactly the files matching a scan pattern and
\* no exclude pattern, each once, in ascending order of code units; a
\* second call on the unchanged tree returns the same list.
C6_ScanSortedUniqueExact ==
  /\ pc \in {"rescan", "scanned"} =>
       /\ Range(htmlFiles) = Discoverable(CONFIG.config, tree)
       /\ StrictlyAscending(htmlFiles)
  /\ pc = "scanned" => rescan = htmlFiles

\* C6 witness: two calls returned a list of three files, a file that both
\* scan patterns match among them, and a file matching a scan pattern was
\* excluded.
C6_Witness ==
  /\ pc = "scanned"
  /\ Len(rescan) = 3
  /\ Len(CONFIG.config.scanPatterns) = 2
  /\ \E f \in Range(rescan) :
       \A k \in DOMAIN CONFIG.config.scanPatterns :
         MatchesScan(CONFIG.config.scanPatterns[k], f)
  /\ \E f \in tree \ Range(rescan) :
       \E k \in DOMAIN CONFIG.config.scanPatterns :
         MatchesScan(CONFIG.config.scanPatterns[k], f)

\* C7: no output path is written by two captures of one run.
C7_NoPathWrittenTwice ==
  \A c, d \in captures : c.path = d.path => c = d

\* C8 as stated: a file whose query finds no '.page' element is a per-file
\* error, logged with its name and counted as failed.
C8_ZeroPagesIsFailure ==
  \A k \in DOMAIN results :
    results[k].found = 0 => (Threw(k) /\ ErrorLine(results[k].file) \in log)

\* C8 amended: a file whose query finds no '.page' element and whose session
\* then closes without a throw is a success: the call returns 0, writes no
\* image, no error is logged for the file, it is counted in successCount and
\* not in failCount, and the loop goes on to the files after it.
C8_ZeroPagesIsSuccess ==
  /\ \A k \in DOMAIN results :
       (Returned(k) /\ results[k].found = 0) =>
         /\ results[k].count = 0
         /\ CapturesOf(k) = {}
         /\ ErrorLine(results[k].file) \notin log
         /\ idx > k
         /\ LoopEnded => calls = htmlFiles
  /\ successCount = Cardinality({k \in DOMAIN results : Returned(k)})
  /\ failCount = Cardinality({k \in DOMAIN results : Threw(k)})

\* C8 witness: a file without pages returned and the next file was called.
C8_Witness ==
  \E k \in DOMAIN results :
    /\ Returned(k)
    /\ results[k].found = 0
    /\ Len(calls) > k

\* An unrecoverable top-level failure: the output directory could not be
\* created, or loading the module threw.
TopLevelFailure == MkdirErrorLine \in log \/ CONFIG.threw

SummaryOfCounts ==
  \E l \in log : l.kind = "summary" /\ l.ok = successCount /\ l.failed = failCount

Unusable(file) ==
  \/ file.kind = "malformed"
  \/ file.kind = "json" /\ file.value.t # "object"

\* C10: with an unusable configuration file loadConfig does not throw and
\* returns the built-in defaults, and the module load does not end the run.
C10_UnusableConfigFallsBack ==
  (pc # "load" /\ Unusable(configFile)) =>
    /\ ~CONFIG.threw
    /\ CONFIG.config = defaultConfig
    /\ pc = "exited" => (exitCode = 0 \/ MkdirErrorLine \in log)

\* C12: every capture is taken with screenshot type 'png', so that the
\* encoded format of a written file agrees with its '.png' name, whatever
\* the configuration file sets imageFormat to.
C12_CapturesArePng ==
  \A c \in captures :
    /\ EndsWith(c.path, Png)
    /\ c.type = Str(PngFormat)

\* ------------------------------------------------------------------ loadConfig alone

ViewportKeys == {"width", "height", "deviceScaleFactor"}

\* Values a configuration file may give a viewport field.
FieldValues == {Num(0), Num(-1), Num(2), Str(JpegFormat)}

\* Values a configuration file may give the viewport key: objects setting
\* any of the three fields, and values that are no objects.
ViewportValues ==
  {Null, Num(5), Str(JpegFormat)}
    \cup UNION {{Obj(f) : f \in [keys -> FieldValues]} : keys \in SUBSET ViewportKeys}

FormatValues == {Str(<<>>), Str(JpegFormat), Str(PngFormat)}

\* The top-level objects of a configuration file: viewport and imageFormat
\* each absent or set.
ConfigObjects ==
  {EmptyObject}
    \cup {Obj([k \in {"viewport"} |-> v]) : v \in ViewportValues}
    \cup {Obj([k \in {"imageFormat"} |-> v]) : v \in FormatValues}
    \cup {Obj([k \in {"viewport", "imageFormat"} |->
                 IF k = "viewport" THEN v ELSE w]) :
            v \in ViewportValues, w \in FormatValues}

\* The configuration files loadConfig is tried on.
LoadableConfigFiles == ConfigFiles \cup {JsonConfigFile(o) : o \in ConfigObjects}

InitConfig ==
  /\ configFile \in LoadableConfigFiles
  /\ tree = {}
  /\ CONFIG = NotLoaded
  /\ pc = "load"
  /\ htmlFiles = <<>>
  /\ idx = 0
  /\ session = NoSession
  /\ open = {}
  /\ captures = {}
  /\ calls = <<>>
  /\ results = <<>>
  /\ totalPages = 0
  /\ successCount = 0
  /\ failCount = 0
  /\ log = {}
  /\ exitCode = NoExit
  /\ rescan = <<>>
  /\ shell = NoShell

\* const CONFIG = loadConfig(): the call alone.
LoadConfig ==
  /\ pc = "load"
  /\ CONFIG' = loadConfig(configFile)
  /\ pc' = "loaded"
  /\ UNCHANGED <<shell, configFile, tree, htmlFiles, idx, session, open, captures, calls,
                 results, totalPages, successCount, failCount, log, exitCode, rescan>>

NextConfig == LoadConfig

SpecConfig == InitConfig /\ [][NextConfig]_vars

\* A positive number.
Positive(value) == value.t = "number" /\ value.n > 0

\* The viewport fields the configuration file sets.
FieldsSet(file) ==
  IF file.kind = "json" /\ file.value.t = "object" /\ "viewport" \in DOMAIN file.value.f
  THEN DOMAIN SpreadProps(file.value.f["viewport"]) \cap ViewportKeys
  ELSE {}

\* C11: the configuration loadConfig returns has a positive number for
\* viewport.width, viewport.height and viewport.deviceScaleFactor, and every
\* viewport field the file leaves unset has its built-in default.
C11_ViewportPositive ==
  (pc = "loaded" /\ ~CONFIG.threw) =>
    /\ \A k \in ViewportKeys : Positive(CONFIG.config.viewport[k])
    /\ \A k \in ViewportKeys \ FieldsSet(configFile) :
         CONFIG.config.viewport[k] = DefaultViewport[k]

\* ------------------------------------------------------------------ convert.sh

\* The longest argument list tried.
MaxArgs == 3

ImagesOnlyOption == "--images-only"
PptOnlyOption == "--ppt-only"

\* The words an argument list is made of: the two options and a word that
\* is neither.
ArgWords == {ImagesOnlyOption, PptOnlyOption, "--help"}

ArgLists == UNION {[1..n -> ArgWords] : n \in 0..MaxArgs}

\* The exit statuses of a command the script runs.
Statuses == {0, 1}

\* What the script changes nothing of.
scriptVars ==
  <<configFile, tree, CONFIG, pc, htmlFiles, idx, session, open, captures, calls,
    results, totalPages, successCount, failCount, log, exitCode, rescan>>

InitShell ==
  /\ shell \in {[NoShell EXCEPT !.argv = a, !.rest = a, !.pc = "parse"] : a \in ArgLists}
  /\ configFile = NoConfigFile
  /\ tree = {}
  /\ CONFIG = NotLoaded
  /\ pc = "load"
  /\ htmlFiles = <<>>
  /\ idx = 0
  /\ session = NoSession
  /\ open = {}
  /\ captures = {}
  /\ calls = <<>>
  /\ results = <<>>
  /\ totalPages = 0
  /\ successCount = 0
  /\ failCount = 0
  /\ log = {}
  /\ exitCode = NoExit
  /\ rescan = <<>>

\* The script ends with a status: an explicit exit, or set -e after a
\* command that failed.
ShellExit(sh, status) == [sh EXCEPT !.pc = "exited", !.status = status]

\* One turn of `while [[ $# -gt 0 ]]; do case $1 in ... esac; done'.
ParseArgs ==
  /\ shell.pc = "parse"
  /\ shell' =
       IF shell.rest = <<>>
       THEN [shell EXCEPT !.pc = "check_dependencies"]
       ELSE CASE Head(shell.rest) = ImagesOnlyOption ->
                   [shell EXCEPT !.IMAGES_ONLY = TRUE, !.rest = Tail(shell.rest)]
              [] Head(shell.rest) = PptOnlyOption ->
                   [shell EXCEPT !.PPT_ONLY = TRUE, !.rest = Tail(shell.rest)]
              [] OTHER -> ShellExit(shell, 1)
  /\ UNCHANGED scriptVars

\* check_dependencies: node, npm, python3 and pip3 are all found, or the
\* script exits with 1.
CheckDependencies ==
  /\ shell.pc = "check_dependencies"
  /\ \E found \in BOOLEAN :
       shell' = IF found
                THEN [shell EXCEPT !.pc = "install_node_deps"]
                ELSE ShellExit(shell, 1)
  /\ UNCHANGED scriptVars

\* if [ "$PPT_ONLY" = false ]; then install_node_deps; fi: npm install runs
\* when node_modules is missing, and set -e ends the script when it fails.
InstallNodeDeps ==
  /\ shell.pc = "install_node_deps"
  /\ \E st \in Statuses :
       shell' = IF shell.PPT_ONLY \/ st = 0
                THEN [shell EXCEPT !.pc = "install_python_deps"]
                ELSE ShellExit(shell, st)
  /\ UNCHANGED scriptVars

\* if [ "$IMAGES_ONLY" = false ]; then install_python_deps; fi
InstallPythonDeps ==
  /\ shell.pc = "install_python_deps"
  /\ \E st \in Statuses :
       shell' = IF shell.IMAGES_ONLY \/ st = 0
                THEN [shell EXCEPT !.pc = "html_to_images"]
                ELSE ShellExit(shell, st)
  /\ UNCHANGED scriptVars

\* if [ "$PPT_ONLY" = false ]; then html_to_images; fi: node
\* src/html-to-images.js runs, and set -e ends the script with its status
\* when that is not 0.
HtmlToImages ==
  /\ shell.pc = "html_to_images"
  /\ \E st \in Statuses :
       shell' =
         IF shell.PPT_ONLY
         THEN [shell EXCEPT !.pc = "images_to_ppt"]
         ELSE LET ran == [shell EXCEPT !.started = Append(shell.started, "images"),
                                       !.imageStatus = st]
              IN  IF st = 0 THEN [ran EXCEPT !.pc = "images_to_ppt"]
                  ELSE ShellExit(ran, st)
  /\ UNCHANGED scriptVars

\* if [ "$IMAGES_ONLY" = false ]; then images_to_ppt; fi
ImagesToPpt ==
  /\ shell.pc = "images_to_ppt"
  /\ \E st \in Statuses :
       shell' =
         IF shell.IMAGES_ONLY
         THEN [shell EXCEPT !.pc = "summary"]
         ELSE LET ran == [shell EXCEPT !.started = Append(shell.started, "ppt")]
              IN  IF st = 0 THEN [ran EXCEPT !.pc = "summary"]
                  ELSE ShellExit(ran, st)
  /\ UNCHANGED scriptVars

\* The 'Conversion Complete!' banner, the list of generated files, and the
\* end of the script with status 0.
Summary ==
  /\ shell.pc = "summary"
  /\ shell' = ShellExit([shell EXCEPT !.banner = TRUE], 0)
  /\ UNCHANGED scriptVars

NextShell ==
  \/ ParseArgs
  \/ CheckDependencies
  \/ InstallNodeDeps
  \/ InstallPythonDeps
  \/ HtmlToImages
  \/ ImagesToPpt
  \/ Summary

SpecShell == InitShell /\ [][NextShell]_vars

\* The script accepts an argument list that holds only its two options.
Accepted(argv) == \A k \in DOMAIN argv : argv[k] \in {ImagesOnlyOption, PptOnlyOption}

\* C13: with --images-only only the image stage runs, with --ppt-only only
\* the deck stage, with no option both, the deck stage only after the image
\* stage ended with status 0; after an image stage that failed the deck
\* stage is not started and the banner is not printed; the banner is
\* printed only after at least one stage ran.
C13_StagesFollowOptions ==
  /\ shell.banner =>
       /\ shell.started # <<>>
       /\ ImagesOnlyOption \in Range(shell.argv) => shell.started = <<"images">>
       /\ PptOnlyOption \in Range(shell.argv) => shell.started = <<"ppt">>
       /\ shell.argv = <<>> => shell.started = <<"images", "ppt">>
  /\ (shell.started # <<>> \/ shell.banner) => Accepted(shell.argv)
  /\ ("ppt" \in Range(shell.started) /\ ~shell.PPT_ONLY) =>
       (shell.started = <<"images", "ppt">> /\ shell.imageStatus = 0)
  /\ shell.imageStatus \notin {NoExit, 0} =>
       ("ppt" \notin Range(shell.started) /\ ~shell.banner)

====
